---- MODULE Spec2Model ----
(***************************************************************************)
(* Model of the video-scene service: the HTTP server of app.py (startup,   *)
(* POST /api/crewai, generate_video_scenes with its line-oriented scene    *)
(* parser) and the command-line program crew.py.                           *)
(*                                                                         *)
(* Text (topics, the model's reply, scene fields) is a sequence of         *)
(* one-character strings, so that strip, lower, startswith and split are   *)
(* computed character by character as Python computes them.  Exception     *)
(* messages and status words are atomic strings.                           *)
(***************************************************************************)
EXTENDS Naturals, Sequences, FiniteSets, TLC

VARIABLES
    prog,           \* which program runs: "app" (server) or "crew" (CLI)
    env_key,        \* OPENAI_API_KEY after load_dotenv: "none", "empty", "set"
    pc,             \* control location of the running program
    exit_status,    \* "running", or the process exit status "0" / "1"
    request,        \* app.py: the POST /api/crewai request being handled
    data,           \* app.py: value of request.get_json() for the request
    argv,           \* crew.py: sys.argv
    topic,          \* topic handed to generate_video_scenes
    main_called,    \* app.py: main(topic) was invoked for this request
    llm_calls,      \* chat.completions.create calls made for this request/run
    lines,          \* app.py: scene_content.split('\n')
    idx,            \* app.py: index of the next line of the for loop
    current_scene,  \* app.py: the parser's current_scene dict
    scenes,         \* app.py: the parser's scenes list
    result,         \* return value of generate_video_scenes
    response,       \* app.py: (body, status code) returned by execute_crewai
    stdout          \* crew.py: what main printed

vars == <<prog, env_key, pc, exit_status, request, data, argv, topic, main_called,
          llm_calls, lines, idx, current_scene, scenes, result, response, stdout>>

(***************************************************************************)
(* Bound of the model: the number of lines of a generated model reply.     *)
(***************************************************************************)
MaxLines == 3

(***************************************************************************)
(* Python str operations.                                                  *)
(***************************************************************************)
Whitespace == {" ", "\t", "\n", "\r", "\f"}

UpperCase == <<"A","B","C","D","E","F","G","H","I","J","K","L","M",
               "N","O","P","Q","R","S","T","U","V","W","X","Y","Z">>
LowerCase == <<"a","b","c","d","e","f","g","h","i","j","k","l","m",
               "n","o","p","q","r","s","t","u","v","w","x","y","z">>

LowerChar(c) ==
    IF \E i \in 1..26 : UpperCase[i] = c
    THEN LowerCase[CHOOSE i \in 1..26 : UpperCase[i] = c]
    ELSE c

\* str.lower()
Lower(s) == [i \in 1..Len(s) |-> LowerChar(s[i])]

SetMin(S) == CHOOSE m \in S : \A n \in S : m <= n
SetMax(S) == CHOOSE m \in S : \A n \in S : n <= m

\* str.strip(): leading and trailing whitespace removed
Strip(s) ==
    LET keep == {i \in 1..Len(s) : s[i] \notin Whitespace}
    IN  IF keep = {} THEN <<>> ELSE SubSeq(s, SetMin(keep), SetMax(keep))

\* str.startswith(p)
StartsWith(s, p) == Len(s) >= Len(p) /\ SubSeq(s, 1, Len(p)) = p

\* c in s
Contains(s, c) == \E i \in 1..Len(s) : s[i] = c

\* str.split(sep): every piece between separators, empty pieces kept
RECURSIVE Split(_, _)
Split(s, sep) ==
    LET hits == {i \in 1..Len(s) : s[i] = sep}
    IN  IF hits = {} THEN <<s>>
        ELSE LET k == SetMin(hits)
             IN  <<SubSeq(s, 1, k - 1)>> \o Split(SubSeq(s, k + 1, Len(s)), sep)

\* str.split(sep, 1) of a string that contains sep: <<before, after>>
SplitOnce(s, sep) ==
    LET k == SetMin({i \in 1..Len(s) : s[i] = sep})
    IN  <<SubSeq(s, 1, k - 1), SubSeq(s, k + 1, Len(s))>>

(***************************************************************************)
(* Python dict of the parser: keys is the set of keys present; a field     *)
(* whose key is absent holds no value (reading it raises KeyError).        *)
(***************************************************************************)
EmptyDict == [keys |-> {}, number |-> <<>>, description |-> <<>>, elements |-> <<>>]

\* truth value of a dict: non-empty
Truthy(d) == d.keys # {}

NewScene(line) ==
    [keys |-> {"number", "description", "elements"},
     number |-> line, description |-> <<>>, elements |-> <<>>]

(***************************************************************************)
(* The scene parser of app.py, one loop iteration.                         *)
(***************************************************************************)
sceneWord == <<"s","c","e","n","e">>
descriptionKey == <<"d","e","s","c","r","i","p","t","i","o","n">>
keyElementsKey == <<"k","e","y"," ","e","l","e","m","e","n","t","s">>

\* line.lower().startswith('scene')
IsSceneHeader(line) == StartsWith(Lower(line), sceneWord)

\* variant: the items are not stripped
SplitElementsUntrimmed(value) == Split(value, ",")

\* [elem.strip() for elem in value.split(',')]
SplitElements(value) ==
    LET parts == Split(value, ",")
    IN  [i \in 1..Len(parts) |-> Strip(parts[i])]

\* variant: the open record is dropped instead of stored
OnHeaderDropsOpen(cur, scs, line) ==
    [cur |-> NewScene(line), scs |-> scs, raised |-> FALSE]

\* a header line: store the open record, open a new one
OnHeader(cur, scs, line) ==
    [cur |-> NewScene(line),
     scs |-> IF Truthy(cur) THEN Append(scs, cur) ELSE scs,
     raised |-> FALSE]

\* variant: a description is written to the last stored record (scenes[-1])
OnKeyValueLastStored(cur, scs, line) ==
    LET key   == Strip(Lower(SplitOnce(line, ":")[1]))
        value == SplitOnce(line, ":")[2]
    IN  IF key = descriptionKey /\ Len(scs) > 0
        THEN [cur |-> cur,
              scs |-> [scs EXCEPT ![Len(scs)].description = Strip(value)],
              raised |-> FALSE]
        ELSE [cur |-> IF key = descriptionKey
                      THEN [cur EXCEPT !.description = Strip(value)]
                      ELSE cur,
              scs |-> scs, raised |-> FALSE]

\* a line containing ':' while a record is open
OnKeyValue(cur, scs, line) ==
    LET kv    == SplitOnce(line, ":")
        key   == Strip(Lower(kv[1]))
        value == kv[2]
    IN  [cur |-> IF key = descriptionKey
                 THEN [cur EXCEPT !.keys = @ \cup {"description"},
                                  !.description = Strip(value)]
                 ELSE IF key = keyElementsKey
                 THEN [cur EXCEPT !.keys = @ \cup {"elements"},
                                  !.elements = SplitElements(value)]
                 ELSE cur,
         scs |-> scs,
         raised |-> FALSE]

\* variant: the description is overwritten even when it is already set
OnPlainOverwrites(cur, scs, line) ==
    [cur |-> [cur EXCEPT !.description = line], scs |-> scs, raised |-> FALSE]

\* a colon-free line while a record is open
OnPlain(cur, scs, line) ==
    IF "description" \notin cur.keys
    THEN [cur |-> cur, scs |-> scs, raised |-> TRUE]      \* KeyError
    ELSE [cur |-> IF cur.description = <<>>
                  THEN [cur EXCEPT !.description = line]
                  ELSE cur,
          scs |-> scs,
          raised |-> FALSE]

\* variant: the branch is taken whether or not a record is open
ElifAlways(cur) == TRUE

\* the guard of `elif current_scene:`
ElifCurrentScene(cur) == Truthy(cur)

\* the body of the for loop for one raw line
ParseStep(cur, scs, raw) ==
    LET line == Strip(raw)
    IN  IF line = <<>> THEN [cur |-> cur, scs |-> scs, raised |-> FALSE]
        ELSE IF IsSceneHeader(line) THEN OnHeader(cur, scs, line)
        ELSE IF ElifCurrentScene(cur)
             THEN IF Contains(line, ":") THEN OnKeyValue(cur, scs, line)
                                         ELSE OnPlain(cur, scs, line)
             ELSE [cur |-> cur, scs |-> scs, raised |-> FALSE]

\* after the loop: the record still open is stored
Flush(cur, scs) == IF Truthy(cur) THEN Append(scs, cur) ELSE scs

(***************************************************************************)
(* Results of generate_video_scenes and the JSON encoders.                 *)
(***************************************************************************)
NoResult == [status |-> "none"]

\* variant: the topic is stripped before it is returned
SuccessResultTrimmed(t, scs) == [status |-> "success", topic |-> Strip(t), scenes |-> scs]

\* app.py: the dict returned on success
SuccessResult(t, scs) == [status |-> "success", topic |-> t, scenes |-> scs]

\* app.py: the dict returned from an except block
ErrorResult(msg) == [status |-> "error", message |-> msg]

\* JSON text of one character of a string (ensure_ascii escapes)
JsonEscapeChar(c) ==
    IF c = "\"" THEN <<"\\", "\"">>
    ELSE IF c = "\\" THEN <<"\\", "\\">>
    ELSE IF c = "\n" THEN <<"\\", "n">>
    ELSE IF c = "\t" THEN <<"\\", "t">>
    ELSE IF c = "\r" THEN <<"\\", "r">>
    ELSE IF c = "\f" THEN <<"\\", "f">>
    ELSE <<c>>

RECURSIVE JsonEscape(_)
JsonEscape(s) ==
    IF s = <<>> THEN <<>> ELSE JsonEscapeChar(Head(s)) \o JsonEscape(Tail(s))

\* the JSON string literal json.dumps / jsonify writes for a str
JsonString(s) == <<"\"">> \o JsonEscape(s) \o <<"\"">>

JsonStrings(ss) == [i \in 1..Len(ss) |-> JsonString(ss[i])]

JsonScene(sc) ==
    [number      |-> JsonString(sc.number),
     description |-> JsonString(sc.description),
     elements    |-> JsonStrings(sc.elements)]

\* jsonify(result): the JSON document, its string leaves as JSON literals
Jsonify(r) ==
    IF r.status = "success"
    THEN [status |-> r.status,
          topic  |-> JsonString(r.topic),
          scenes |-> [i \in 1..Len(r.scenes) |-> JsonScene(r.scenes[i])]]
    ELSE r

\* crew.py: json.dumps({"topic": topic, "scenes": scenes}, indent=4)
CrewSuccessJson(t, scs) == [topic |-> JsonString(t), scenes |-> JsonStrings(scs)]

\* crew.py: json.dumps({"error": ...})
CrewErrorJson(msg) == [error |-> msg]

\* crew.py: [scene.strip() for scene in scene_context.split("\n") if scene]
CrewScenes(scene_context) ==
    LET kept == SelectSeq(Split(scene_context, "\n"), LAMBDA s : s # <<>>)
    IN  [i \in 1..Len(kept) |-> Strip(kept[i])]

(***************************************************************************)
(* Inputs: topics, request bodies, command lines, replies of the LLM.      *)
(***************************************************************************)
Topics == { <<" ", "C", "a", "t", " ">>, <<"a", "\"", "\\", "\n", "B">> }

JsonNull        == [kind |-> "null",   keys |-> {},        topic |-> <<>>, len |-> 0]
JsonObject(k, t) == [kind |-> "object", keys |-> k,         topic |-> t,    len |-> 0]
JsonArray(n)    == [kind |-> "array",  keys |-> {},        topic |-> <<>>, len |-> n]
GetJsonRaised   == [kind |-> "raised", keys |-> {},        topic |-> <<>>, len |-> 0]

JsonValues ==
    {JsonNull, JsonArray(0), JsonArray(1),
     JsonObject({}, <<>>), JsonObject({"other"}, <<>>),
     JsonObject({"topic"}, <<>>), JsonObject({"topic", "other"}, <<>>)}
    \cup {JsonObject({"topic"}, t) : t \in Topics}

\* a request: no body, a body that is not JSON, or a JSON body
Requests ==
    {[body |-> "missing", value |-> JsonNull], [body |-> "malformed", value |-> JsonNull]}
    \cup {[body |-> "json", value |-> v] : v \in JsonValues}

NoRequest == [body |-> "none", value |-> JsonNull]

\* request.get_json(): the parsed body; a body that is not JSON raises.  A
\* missing body gives None, which is what the handler's "No data provided"
\* branch is written for (a Flask release that raises for it instead takes
\* the path of the malformed body).
GetJson(req) ==
    IF req.body = "json" THEN {req.value}
    ELSE IF req.body = "malformed" THEN {GetJsonRaised}
    ELSE {JsonNull}

\* truth value of the parsed body: None, {} and [] are false
DataTruthy(d) ==
    IF d.kind = "object" THEN d.keys # {}
    ELSE IF d.kind = "array" THEN d.len > 0
    ELSE FALSE

\* data.get('topic') is truthy: the key is present with a non-empty string
TopicTruthy(d) == "topic" \in d.keys /\ d.topic # <<>>

progName == <<"c","r","e","w",".","p","y">>

ArgvSet ==
    {<<progName>>} \cup {<<progName, t>> : t \in Topics \cup {<<>>}}
    \cup {<<progName, t, t>> : t \in Topics}

L_Scene1     == <<"S","c","e","n","e"," ","1">>
L_SCENE2     == <<" ","S","C","E","N","E"," ","2",":"," ","b"," ">>
L_DescA      == <<"D","e","s","c","r","i","p","t","i","o","n",":"," ","A">>
L_DescB      == <<"D","E","S","C","R","I","P","T","I","O","N"," ",":","B",":","c"," ">>
L_DescEmpty  == <<"d","e","s","c","r","i","p","t","i","o","n"," ",":">>
L_KeyXY      == <<"K","e","y"," ","E","l","e","m","e","n","t","s",":"," ","x",","," ","y">>
L_KeyZ       == <<" ","k","e","y"," ","e","l","e","m","e","n","t","s"," ",":","z"," ",",",",">>
L_Note       == <<"N","o","t","e",":"," ","n">>
L_Intro      == <<"i","n","t","r","o">>
L_More       == <<"\t","m","o","r","e"," ","s","c","e","n","e">>
L_Blank      == <<" ">>

Pool == {L_Scene1, L_SCENE2, L_DescA, L_DescB, L_DescEmpty, L_KeyXY, L_KeyZ,
         L_Note, L_Intro, L_More, L_Blank}

RECURSIVE JoinLines(_)
JoinLines(ls) ==
    IF ls = <<>> THEN <<>>
    ELSE IF Len(ls) = 1 THEN ls[1]
    ELSE ls[1] \o <<"\n">> \o JoinLines(Tail(ls))

\* the reply text of the specification's parsing example
ExampleText ==
    <<"S","c","e","n","e"," ","1","\n","D","e","s","c","r","i","p","t",
      "i","o","n",":"," ","A"," ","s","u","n","r","i","s","e"," ","o",
      "v","e","r"," ","m","o","u","n","t","a","i","n","s","\n","K","e",
      "y"," ","E","l","e","m","e","n","t","s",":"," ","s","u","n",",",
      " ","p","e","a","k",","," ","f","o","g","\n","S","c","e","n","e",
      " ","2","\n","D","e","s","c","r","i","p","t","i","o","n",":"," ",
      "A"," ","c","i","t","y"," ","s","t","r","e","e","t","\n","K","e",
      "y"," ","E","l","e","m","e","n","t","s",":"," ","c","a","r",",",
      " ","c","r","o","w","d">>

Ex_Sunrise ==
    <<"A"," ","s","u","n","r","i","s","e"," ","o","v","e","r"," ","m",
      "o","u","n","t","a","i","n","s">>
Ex_City ==
    <<"A"," ","c","i","t","y"," ","s","t","r","e","e","t">>
Ex_Scene2 == <<"S","c","e","n","e"," ","2">>
Ex_Elements1 == << <<"s","u","n">>, <<"p","e","a","k">>, <<"f","o","g">> >>
Ex_Elements2 == << <<"c","a","r">>, <<"c","r","o","w","d">> >>

Contents ==
    {JoinLines(ls) : ls \in UNION {[1..n -> Pool] : n \in 0..MaxLines}}
    \cup {ExampleText}

\* what client.chat.completions.create and response.choices[0].message.content give
LLMOutcomes ==
    {[kind |-> "api_error", text |-> <<>>],
     [kind |-> "no_choices", text |-> <<>>],
     [kind |-> "no_content", text |-> <<>>]}
    \cup {[kind |-> "text", text |-> c] : c \in Contents}

LLMErrorMessage(out) ==
    IF out.kind = "api_error" THEN "APIError"
    ELSE IF out.kind = "no_choices" THEN "IndexError"
    ELSE "AttributeError"

(***************************************************************************)
(* Initial state: the interpreter starts one of the two programs.          *)
(***************************************************************************)
NoResponse == [code |-> 0, body |-> NoResult]

Init ==
    /\ prog \in {"app", "crew"}
    /\ env_key \in {"none", "empty", "set"}
    /\ pc = IF prog = "app" THEN "import" ELSE "cli_start"
    /\ exit_status = "running"
    /\ request = NoRequest
    /\ data = JsonNull
    /\ argv = <<>>
    /\ topic = <<>>
    /\ main_called = FALSE
    /\ llm_calls = 0
    /\ lines = <<>>
    /\ idx = 1
    /\ current_scene = EmptyDict
    /\ scenes = <<>>
    /\ result = NoResult
    /\ response = NoResponse
    /\ stdout = NoResult

\* variant: only an unset variable counts as missing (`is None`)
KeyIsNone(k) == k = "none"

\* not os.getenv("OPENAI_API_KEY"): unset or empty
KeyMissing(k) == k \in {"none", "empty"}

(***************************************************************************)
(* app.py run as the main program.                                         *)
(***************************************************************************)
\* module level: client = OpenAI(api_key=os.getenv("OPENAI_API_KEY")).  With
\* the variable unset the constructor raises in some releases of the
\* library; the uncaught exception ends the interpreter with status 1.
AppImport ==
    /\ pc = "import"
    /\ \/ /\ env_key = "none"
          /\ pc' = "exited"
          /\ exit_status' = "1"
       \/ /\ pc' = "main_guard"
          /\ exit_status' = exit_status
    /\ UNCHANGED <<prog, env_key, argv, request, data, topic, main_called, llm_calls,
                   lines, idx, current_scene, scenes, result, response, stdout>>

\* if __name__ == '__main__': the credential check, then app.run
AppMainGuard ==
    /\ pc = "main_guard"
    /\ IF KeyMissing(env_key)
       THEN pc' = "exited" /\ exit_status' = "1"
       ELSE pc' = "serving" /\ exit_status' = exit_status
    /\ UNCHANGED <<prog, env_key, argv, request, data, topic, main_called, llm_calls,
                   lines, idx, current_scene, scenes, result, response, stdout>>

\* what execute_crewai decides from the parsed body, before main is called
Validate(d) ==
    IF d.kind = "raised"
    THEN [done |-> TRUE, code |-> 500, body |-> ErrorResult("BadRequest")]
    ELSE IF ~DataTruthy(d)
    THEN [done |-> TRUE, code |-> 400, body |-> ErrorResult("No data provided")]
    ELSE IF d.kind # "object"
    THEN [done |-> TRUE, code |-> 500, body |-> ErrorResult("AttributeError")]
    ELSE IF ~TopicTruthy(d)
    THEN [done |-> TRUE, code |-> 400, body |-> ErrorResult("Topic is required")]
    ELSE [done |-> FALSE, code |-> 0, body |-> NoResult]

\* execute_crewai up to the call of main
ExecuteCrewaiValidate ==
    /\ pc = "serving"
    /\ \E req \in Requests : \E d \in GetJson(req) :
         LET v == Validate(d)
         IN  /\ request' = req
             /\ data' = d
             /\ IF v.done
                THEN /\ response' = [code |-> v.code, body |-> Jsonify(v.body)]
                     /\ pc' = "responded"
                     /\ UNCHANGED <<topic, main_called>>
                ELSE /\ topic' = d.topic
                     /\ main_called' = TRUE
                     /\ pc' = "generate"
                     /\ UNCHANGED response
    /\ UNCHANGED <<prog, env_key, argv, exit_status, llm_calls, lines, idx,
                   current_scene, scenes, result, stdout>>

\* generate_video_scenes up to the parser: the chat-completion call
AppGenerateCall ==
    /\ pc = "generate"
    /\ llm_calls' = llm_calls + 1
    /\ \E out \in LLMOutcomes :
         IF out.kind = "text"
         THEN /\ lines' = Split(Strip(out.text), "\n")
              /\ idx' = 1
              /\ current_scene' = EmptyDict
              /\ scenes' = <<>>
              /\ pc' = "parse"
              /\ UNCHANGED result
         ELSE /\ result' = ErrorResult(LLMErrorMessage(out))
              /\ pc' = "gen_done"
              /\ UNCHANGED <<lines, idx, current_scene, scenes>>
    /\ UNCHANGED <<prog, env_key, argv, exit_status, request, data, topic, main_called,
                   response, stdout>>

\* one iteration of `for line in scene_content.split('\n')`
ParseLine ==
    /\ pc = "parse"
    /\ idx <= Len(lines)
    /\ LET st == ParseStep(current_scene, scenes, lines[idx])
       IN  IF st.raised
           THEN /\ result' = ErrorResult("KeyError")
                /\ pc' = "gen_done"
                /\ UNCHANGED <<idx, current_scene, scenes>>
           ELSE /\ current_scene' = st.cur
                /\ scenes' = st.scs
                /\ idx' = idx + 1
                /\ UNCHANGED <<pc, result>>
    /\ UNCHANGED <<prog, env_key, argv, exit_status, request, data, topic, main_called,
                   llm_calls, lines, response, stdout>>

\* after the loop: flush the open record and return the success dict
ParseReturn ==
    /\ pc = "parse"
    /\ idx > Len(lines)
    /\ scenes' = Flush(current_scene, scenes)
    /\ result' = SuccessResult(topic, scenes')
    /\ pc' = "gen_done"
    /\ UNCHANGED <<prog, env_key, argv, exit_status, request, data, topic, main_called,
                   llm_calls, lines, idx, current_scene, response, stdout>>

\* variant: every result of main is answered 200
ResponseCodeAlwaysOk(r) == 200

\* the status code execute_crewai gives the result of main
ResponseCode(r) == IF r.status = "error" THEN 500 ELSE 200

\* main returns the result; execute_crewai answers with it
ExecuteCrewaiRespond ==
    /\ pc = "gen_done"
    /\ response' = [code |-> ResponseCode(result), body |-> Jsonify(result)]
    /\ pc' = "responded"
    /\ UNCHANGED <<prog, env_key, argv, exit_status, request, data, topic, main_called,
                   llm_calls, lines, idx, current_scene, scenes, result, stdout>>

\* the server waits for the next request; nothing of the last one is kept
NextRequest ==
    /\ pc = "responded"
    /\ pc' = "serving"
    /\ request' = NoRequest
    /\ data' = JsonNull
    /\ topic' = <<>>
    /\ main_called' = FALSE
    /\ llm_calls' = 0
    /\ lines' = <<>>
    /\ idx' = 1
    /\ current_scene' = EmptyDict
    /\ scenes' = <<>>
    /\ result' = NoResult
    /\ response' = NoResponse
    /\ UNCHANGED <<prog, env_key, argv, exit_status, stdout>>

(***************************************************************************)
(* crew.py run as the main program.                                        *)
(***************************************************************************)
\* main: the argument count check
CrewMain ==
    /\ pc = "cli_start"
    /\ \E a \in ArgvSet :
         /\ argv' = a
         /\ IF Len(a) # 2
            THEN /\ stdout' = [usage |-> "Usage: python crew.py <topic>"]
                 /\ pc' = "exited"
                 /\ exit_status' = "1"
                 /\ UNCHANGED topic
            ELSE /\ topic' = a[2]
                 /\ pc' = "cli_generate"
                 /\ UNCHANGED <<stdout, exit_status>>
    /\ UNCHANGED <<prog, env_key, request, data, main_called, llm_calls, lines,
                   idx, current_scene, scenes, result, response>>

\* generate_video_scenes of crew.py: get_openai_client, the call, json.dumps
CrewGenerate ==
    /\ pc = "cli_generate"
    /\ IF KeyMissing(env_key)
       THEN /\ result' = CrewErrorJson("OpenAI API key not found!")
            /\ UNCHANGED llm_calls
       ELSE /\ llm_calls' = llm_calls + 1
            /\ \E out \in LLMOutcomes :
                 result' = IF out.kind = "text"
                           THEN CrewSuccessJson(topic, CrewScenes(Strip(out.text)))
                           ELSE CrewErrorJson("An error occurred")
    /\ pc' = "cli_print"
    /\ UNCHANGED <<prog, env_key, argv, exit_status, request, data, topic, main_called,
                   lines, idx, current_scene, scenes, response, stdout>>

\* print(video_scenes) and the end of the program
CrewPrint ==
    /\ pc = "cli_print"
    /\ stdout' = result
    /\ pc' = "exited"
    /\ exit_status' = "0"
    /\ UNCHANGED <<prog, env_key, argv, request, data, topic, main_called, llm_calls,
                   lines, idx, current_scene, scenes, result, response>>

Next ==
    \/ AppImport
    \/ AppMainGuard
    \/ ExecuteCrewaiValidate
    \/ AppGenerateCall
    \/ ParseLine
    \/ ParseReturn
    \/ ExecuteCrewaiRespond
    \/ NextRequest
    \/ CrewMain
    \/ CrewGenerate
    \/ CrewPrint

Spec == Init /\ [][Next]_vars

(***************************************************************************)
(* What the properties below read off the reply text: the header lines     *)
(* and, for the k-th header, the lines up to the next header.              *)
(***************************************************************************)
Stripped(i) == Strip(lines[i])

\* the stripped line begins with "scene", whatever the case of its letters
BeginsWithScene(l) ==
    /\ Len(l) >= 5
    /\ \A j \in 1..5 : l[j] \in {sceneWord[j], UpperCase[CHOOSE n \in 1..26 : LowerCase[n] = sceneWord[j]]}

HeadersUpTo(n) == {i \in 1..n : BeginsWithScene(Stripped(i))}
HeaderIdx == HeadersUpTo(Len(lines))
KthHeader(k) == CHOOSE i \in HeaderIdx : Cardinality({j \in HeaderIdx : j <= i}) = k
SegmentEnd(k) == IF k < Cardinality(HeaderIdx) THEN KthHeader(k + 1) - 1 ELSE Len(lines)
\* the non-empty lines read while the k-th record was open
Segment(k) == {i \in (KthHeader(k) + 1)..SegmentEnd(k) : Stripped(i) # <<>>}

HasColon(l) == \E j \in 1..Len(l) : l[j] = ":"
FirstColon(l) == SetMin({j \in 1..Len(l) : l[j] = ":"})
KeyOf(l) == Strip(Lower(SubSeq(l, 1, FirstColon(l) - 1)))
ValueOf(l) == SubSeq(l, FirstColon(l) + 1, Len(l))

DescLines(k)  == {i \in Segment(k) : HasColon(Stripped(i)) /\ KeyOf(Stripped(i)) = descriptionKey}
ElemLines(k)  == {i \in Segment(k) : HasColon(Stripped(i)) /\ KeyOf(Stripped(i)) = keyElementsKey}
PlainLines(k) == {i \in Segment(k) : ~HasColon(Stripped(i))}

\* generate_video_scenes of app.py has returned a success dict
AppSucceeded == prog = "app" /\ pc \in {"gen_done", "responded"} /\ result.status = "success"

(***************************************************************************)
(* C1: the parser returns exactly one record per non-empty line whose      *)
(* stripped text begins with "scene" (any case), in the order of those     *)
(* lines, each record's number being its stripped header line; after any   *)
(* prefix of the lines the stored records plus the open one are exactly    *)
(* the headers read so far (none lost, none twice), and the last open      *)
(* record is flushed at the end of the input.                              *)
(***************************************************************************)
RecordsSoFar == IF Truthy(current_scene) THEN Append(scenes, current_scene) ELSE scenes

KthHeaderUpTo(n, k) ==
    CHOOSE i \in HeadersUpTo(n) : Cardinality({j \in HeadersUpTo(n) : j <= i}) = k

\* C1: one record per header line, in order, numbered by its stripped header;
\* none lost or stored twice after any prefix, the last one flushed at the end.
C1_OneRecordPerHeader ==
    /\ pc = "parse" =>
         /\ Len(RecordsSoFar) = Cardinality(HeadersUpTo(idx - 1))
         /\ \A k \in 1..Len(RecordsSoFar) :
              RecordsSoFar[k].number = Stripped(KthHeaderUpTo(idx - 1, k))
    /\ AppSucceeded =>
         /\ Len(result.scenes) = Cardinality(HeaderIdx)
         /\ \A k \in 1..Len(result.scenes) :
              result.scenes[k].number = Stripped(KthHeader(k))

C1_Witness ==
    /\ AppSucceeded
    /\ Len(lines) = 3
    /\ Len(result.scenes) = 2
    /\ result.scenes[1].number = L_Scene1
    /\ result.scenes[2].number = Strip(L_SCENE2)

(***************************************************************************)
(* C2: a "Description:" or "Key Elements:" line changes only the record    *)
(* opened by the latest header: a parser step never changes a stored       *)
(* record, stores a record only as it stood when its successor's header    *)
(* (or the end of input) was read, and the returned list is the stored     *)
(* list.                                                                   *)
(***************************************************************************)
C2_Step ==
    pc = "parse" =>
      /\ Len(scenes') >= Len(scenes)
      /\ \A i \in 1..Len(scenes) : scenes'[i] = scenes[i]
      /\ Len(scenes') > Len(scenes) =>
           /\ Len(scenes') = Len(scenes) + 1
           /\ scenes'[Len(scenes')] = current_scene
           /\ \/ pc' = "gen_done"
              \/ BeginsWithScene(Stripped(idx))
      /\ (pc' = "parse" /\ ~BeginsWithScene(Stripped(idx))) => scenes' = scenes
      /\ (pc' = "gen_done" /\ result'.status = "success") => result'.scenes = scenes'

\* C2: once stored, a record never changes; key/value lines touch only the
\* record opened by the latest header.
C2_EarlierRecordsFrozen == [][C2_Step]_vars

C2_Witness ==
    /\ pc = "parse"
    /\ Len(scenes) = 1
    /\ scenes[1].description = Ex_Sunrise
    /\ Truthy(current_scene)
    /\ current_scene.description = Ex_City

(***************************************************************************)
(* C3: a request whose body is missing, empty, or has a missing or empty   *)
(* topic is answered 400 with a body of status "error", and neither main   *)
(* nor the LLM is called for it.                                           *)
(***************************************************************************)
LacksTopic(req) ==
    \/ req.body = "missing"
    \/ req.body = "json" /\ ~TopicTruthy(req.value)

\* C3: a request without a (non-empty) topic is answered 400 with status
\* "error", and generation is not invoked.
C3_MissingTopicIs400 ==
    (prog = "app" /\ pc = "responded" /\ LacksTopic(request)) =>
      /\ response.code = 400
      /\ response.body.status = "error"
      /\ ~main_called
      /\ llm_calls = 0

(***************************************************************************)
(* C4: a request carrying a non-empty topic is answered 200 exactly when   *)
(* the generation result has status "success" (body with status, topic     *)
(* and scenes) and 500 with a body {status: "error", message} otherwise;   *)
(* no other code is returned, and no body of status "error" goes out       *)
(* with code 200.                                                          *)
(***************************************************************************)
CarriesTopic(req) ==
    req.body = "json" /\ req.value.kind = "object" /\ TopicTruthy(req.value)

\* C4: with a non-empty topic the answer is 200 exactly on a success result
\* and 500 {status: "error", message} otherwise; never an error body with 200.
C4_StatusFollowsResult ==
    (prog = "app" /\ pc = "responded") =>
      /\ ~(response.body.status = "error" /\ response.code = 200)
      /\ CarriesTopic(request) =>
           /\ main_called
           /\ response.code \in {200, 500}
           /\ response.code = 200 <=> result.status = "success"
           /\ response.code = 200 =>
                /\ DOMAIN response.body = {"status", "topic", "scenes"}
                /\ response.body.status = "success"
           /\ response.code = 500 =>
                /\ DOMAIN response.body = {"status", "message"}
                /\ response.body.status = "error"

C4_Witness ==
    /\ prog = "app" /\ pc = "responded" /\ CarriesTopic(request)
    /\ result.status = "error"
    /\ response.code = 500

(***************************************************************************)
(* C5: every failure on either entry point is reported in the one shape    *)
(* {status: "error", message}: the results of generate_video_scenes and    *)
(* main and the answers of execute_crewai in app.py, and the JSON that     *)
(* generate_video_scenes of crew.py returns.                               *)
(***************************************************************************)
UniformError(r) == DOMAIN r = {"status", "message"} /\ r.status = "error"

\* C5: every failure is reported as {status: "error", message}, in app.py and
\* in the JSON of crew.py.
C5_UniformErrorShape ==
    /\ (prog = "app" /\ pc \in {"gen_done", "responded"} /\ main_called
          /\ result.status # "success") => UniformError(result)
    /\ (prog = "app" /\ pc = "responded" /\ response.code # 200) =>
          UniformError(response.body)
    /\ (prog = "crew" /\ pc = "cli_print" /\ "topic" \notin DOMAIN result) =>
          UniformError(result)

(***************************************************************************)
(* C6: on success the topic of the output is the caller's topic string,    *)
(* character for character: in the dict of generate_video_scenes           *)
(* (app.py), in the JSON of the 200 response, and in the JSON returned by  *)
(* generate_video_scenes of crew.py.                                       *)
(***************************************************************************)
UnescapeChar(c) ==
    IF c = "n" THEN "\n"
    ELSE IF c = "t" THEN "\t"
    ELSE IF c = "r" THEN "\r"
    ELSE IF c = "f" THEN "\f"
    ELSE c

RECURSIVE JsonUnescape(_)
JsonUnescape(s) ==
    IF s = <<>> THEN <<>>
    ELSE IF Head(s) = "\\"
    THEN <<UnescapeChar(s[2])>> \o JsonUnescape(SubSeq(s, 3, Len(s)))
    ELSE <<Head(s)>> \o JsonUnescape(Tail(s))

\* the str a JSON reader gets from a string literal
JsonParseString(lit) == JsonUnescape(SubSeq(lit, 2, Len(lit) - 1))

\* C6: on success the output topic equals the caller's topic, character for
\* character, in app.py, in the 200 response and in crew.py.
C6_TopicRoundTrips ==
    /\ AppSucceeded => result.topic = request.value.topic
    /\ (prog = "app" /\ pc = "responded" /\ response.code = 200) =>
          JsonParseString(response.body.topic) = request.value.topic
    /\ (prog = "crew" /\ pc = "cli_print" /\ "topic" \in DOMAIN result) =>
          JsonParseString(result.topic) = argv[2]

C6_Witness ==
    /\ prog = "app" /\ pc = "responded" /\ response.code = 200
    /\ request.value.topic = <<"a", "\"", "\\", "\n", "B">>
    /\ response.body.topic = <<"\"", "a", "\\", "\"", "\\", "\\", "\\", "n", "B", "\"">>

(***************************************************************************)
(* C7: if the first non-empty line of the reply is not a scene header,     *)
(* the call ends in an error result (as stated); as amended: the           *)
(* `elif current_scene:` branch is not taken while no header has been      *)
(* read, the lines before the first header change nothing, and the call    *)
(* ends in a success result with one record per header line.               *)
(***************************************************************************)
FirstNonEmptyNotHeader ==
    LET ne == {i \in 1..Len(lines) : Stripped(i) # <<>>}
    IN  ne # {} /\ ~BeginsWithScene(Stripped(SetMin(ne)))

\* C7 as stated: a reply whose first non-empty line is not a header ends in
\* an error result.
C7_PreambleFails ==
    (prog = "app" /\ pc \in {"gen_done", "responded"} /\ FirstNonEmptyNotHeader) =>
      result.status = "error"

\* C7 as amended: the lines before the first header are skipped untouched and
\* the call succeeds with one record per header.
C7_PreambleSkipped ==
    (prog = "app" /\ FirstNonEmptyNotHeader) =>
      /\ (pc = "parse" /\ HeadersUpTo(idx - 1) = {}) =>
            current_scene = EmptyDict /\ scenes = <<>>
      /\ pc \in {"gen_done", "responded"} =>
            /\ result.status = "success"
            /\ Len(result.scenes) = Cardinality(HeaderIdx)
            /\ \A k \in 1..Len(result.scenes) :
                 result.scenes[k].keys = {"number", "description", "elements"}

C7_Witness ==
    /\ prog = "app" /\ pc = "gen_done" /\ FirstNonEmptyNotHeader
    /\ Stripped(1) = L_Intro
    /\ result.status = "success"
    /\ Len(result.scenes) = 1

(***************************************************************************)
(* C8: with OPENAI_API_KEY missing, app.py run as the main program exits   *)
(* with status 1 before the server starts, so that a request is only ever  *)
(* served with a credential; crew.py then returns an error JSON and makes  *)
(* no LLM call.                                                            *)
(***************************************************************************)
\* C8: without a credential the server exits with status 1 before serving,
\* and crew.py returns an error JSON without calling the LLM.
C8_NoCredential ==
    /\ (prog = "app" /\ KeyMissing(env_key)) =>
         /\ pc \in {"import", "main_guard", "exited"}
         /\ pc = "exited" => exit_status = "1"
         /\ llm_calls = 0
    /\ (prog = "app" /\ pc \notin {"import", "main_guard", "exited"}) =>
         env_key = "set"
    /\ (prog = "crew" /\ env_key \in {"none", "empty"}) =>
         /\ llm_calls = 0
         /\ pc = "cli_print" => DOMAIN result = {"error"}
         /\ (pc = "exited" /\ Len(argv) = 2) => DOMAIN stdout = {"error"}

C8_Witness ==
    /\ prog = "app" /\ env_key = "empty" /\ pc = "exited" /\ exit_status = "1"

(***************************************************************************)
(* C9: a record's elements are the value of the last "Key Elements:" line  *)
(* read while it was open, split on commas, each item trimmed, in order    *)
(* (one item per comma plus one); a record with no such line has no        *)
(* elements.  The example text gives two records, with elements            *)
(* [sun, peak, fog] and [car, crowd].                                      *)
(***************************************************************************)
CommaIdx(v) == {j \in 1..Len(v) : v[j] = ","}
NthComma(v, n) == CHOOSE j \in CommaIdx(v) : Cardinality({m \in CommaIdx(v) : m <= j}) = n
PieceOf(v, n) ==
    LET from == IF n = 1 THEN 1 ELSE NthComma(v, n - 1) + 1
        to   == IF n = Cardinality(CommaIdx(v)) + 1 THEN Len(v) ELSE NthComma(v, n) - 1
    IN  Strip(SubSeq(v, from, to))

ExpectedElements(k, els) ==
    IF ElemLines(k) = {} THEN els = <<>>
    ELSE LET v == ValueOf(Stripped(SetMax(ElemLines(k))))
         IN  /\ Len(els) = Cardinality(CommaIdx(v)) + 1
             /\ \A n \in 1..Len(els) : els[n] = PieceOf(v, n)

IsExample == lines = Split(ExampleText, "\n")

\* C9: elements are the trimmed comma pieces of the last "Key Elements:" line
\* of the record, empty without one; the example parses as stated.
C9_Elements ==
    AppSucceeded =>
      /\ Len(result.scenes) = Cardinality(HeaderIdx)
      /\ \A k \in 1..Len(result.scenes) : ExpectedElements(k, result.scenes[k].elements)
      /\ IsExample =>
           /\ Len(result.scenes) = 2
           /\ result.scenes[1].number = L_Scene1
           /\ result.scenes[1].description = Ex_Sunrise
           /\ result.scenes[1].elements = Ex_Elements1
           /\ result.scenes[2].number = Ex_Scene2
           /\ result.scenes[2].description = Ex_City
           /\ result.scenes[2].elements = Ex_Elements2

C9_Witness ==
    /\ AppSucceeded /\ IsExample
    /\ Len(result.scenes) = 2
    /\ result.scenes[1].elements = Ex_Elements1

(***************************************************************************)
(* C10: while a record is open, a colon-free non-header line sets the      *)
(* description only if it is still empty, a "Description:" line always     *)
(* replaces it with its trimmed value, and a line with a colon and any     *)
(* other key changes nothing.  As stated, the final description is the     *)
(* value of the last "Description:" line if that is non-empty, else the    *)
(* first colon-free line read while the description was empty; as          *)
(* amended, else the first colon-free line read after the last             *)
(* "Description:" line (after the header when there is none), or empty     *)
(* when there is no such line.                                             *)
(***************************************************************************)
LastDescValue(k) == Strip(ValueOf(Stripped(SetMax(DescLines(k)))))

\* the description was empty when line i of the k-th record was read
DescEmptyBefore(k, i) ==
    LET prior == {j \in DescLines(k) \cup PlainLines(k) : j < i}
    IN  \/ prior = {}
        \/ SetMax(prior) \in DescLines(k) /\ Strip(ValueOf(Stripped(SetMax(prior)))) = <<>>

FirstOf(S) == IF S = {} THEN <<>> ELSE Stripped(SetMin(S))

StatedFinalDescription(k) ==
    IF DescLines(k) # {} /\ LastDescValue(k) # <<>>
    THEN LastDescValue(k)
    ELSE FirstOf({i \in PlainLines(k) : DescEmptyBefore(k, i)})

AmendedFinalDescription(k) ==
    IF DescLines(k) # {} /\ LastDescValue(k) # <<>>
    THEN LastDescValue(k)
    ELSE FirstOf({i \in PlainLines(k) : DescLines(k) = {} \/ i > SetMax(DescLines(k))})

C10_Step ==
    (pc = "parse" /\ pc' = "parse" /\ idx' = idx + 1 /\ Truthy(current_scene)
       /\ Stripped(idx) # <<>> /\ ~BeginsWithScene(Stripped(idx))) =>
      LET line == Stripped(idx)
      IN  /\ scenes' = scenes
          /\ IF ~HasColon(line)
             THEN current_scene' =
                    IF current_scene.description = <<>>
                    THEN [current_scene EXCEPT !.description = line]
                    ELSE current_scene
             ELSE IF KeyOf(line) = descriptionKey
             THEN current_scene' = [current_scene EXCEPT !.description = Strip(ValueOf(line))]
             ELSE IF KeyOf(line) = keyElementsKey
             THEN /\ current_scene'.description = current_scene.description
                  /\ current_scene'.number = current_scene.number
             ELSE current_scene' = current_scene

\* C10 as stated: the final description is the last non-empty "Description:"
\* value, else the first colon-free line read while the description was empty.
C10_StatedFinal ==
    AppSucceeded =>
      /\ Len(result.scenes) = Cardinality(HeaderIdx)
      /\ \A k \in 1..Len(result.scenes) :
           result.scenes[k].description = StatedFinalDescription(k)

C10_AmendedFinal ==
    AppSucceeded =>
      /\ Len(result.scenes) = Cardinality(HeaderIdx)
      /\ \A k \in 1..Len(result.scenes) :
           result.scenes[k].description = AmendedFinalDescription(k)

\* C10 as amended: the per-line effects on the open record, and the final
\* description as the last "Description:" value if non-empty, else the first
\* colon-free line after the last "Description:" line.
C10_Description == [][C10_Step]_vars /\ []C10_AmendedFinal

C10_Witness ==
    /\ AppSucceeded
    /\ Len(lines) = 3
    /\ Stripped(2) = L_Intro
    /\ Stripped(3) = Strip(L_DescEmpty)
    /\ Len(result.scenes) = 1
    /\ result.scenes[1].description = <<>>

====
